---- MODULE Spec2Model ----
(***************************************************************************)
(* The Sudoku solving engine of src/src/main.rs: the board queries         *)
(* (get_used, get_missing), one propagation round (solve), the branch      *)
(* ordering and seeding (Branch, add_heap) and the driver loops of main.   *)
(* Boards are functions on the 1D indices 0..80, 0 meaning unassigned.     *)
(***************************************************************************)
EXTENDS Integers, Sequences, FiniteSets, Bags, TLC

VARIABLES
  pc,        \* position in main: "init_loop", "search", "branch_loop", "solved", "failed"
             \* ("call", "returned" for one isolated call of solve; "board_arg",
             \* "listed", "unflattened" for the list encoding on its own)
  board,     \* the working grid: main's board, then the popped branch's _board
  assigned,  \* main's assigned: the value returned by the last call of solve
  pq,        \* the BinaryHeap of branches, as a bag
  cur,       \* the fields _pos, _val, _cut, _depth of the branch popped last
  input,     \* history: the grid main started from
  fixpoint,  \* history: the grid the first fixpoint loop ended with
  pre,       \* history: the working grid before the last call of solve on it
  writes,    \* history: the writes of the last call of solve on it, in order
  list       \* main's list: the flattened form of the grid

vars == <<pc, board, assigned, pq, cur, input, fixpoint, pre, writes, list>>

----------------------------------------------------------------------------
(* Grid geometry and queries *)

Cells == 0..80

U == 1..9

id(row, col) == 9 * row + col

get_row_start(i) == (i \div 9) * 9

get_col_start(i) == i % 9

get_region_start(i) == ((i \div 27) * 27) + (((i % 9) \div 3) * 3)

RowCells(i) == { get_row_start(i) + j : j \in 0..8 }

ColCells(i) == { 9 * j + get_col_start(i) : j \in 0..8 }

RegionCells(i) == { 9 * j + get_region_start(i) + k : j \in 0..2, k \in 0..2 }

AreaCells(i, area) ==
  (IF area \in {"ROW", "ALL"} THEN RowCells(i) ELSE {})
    \cup (IF area \in {"COL", "ALL"} THEN ColCells(i) ELSE {})
    \cup (IF area \in {"REGION", "ALL"} THEN RegionCells(i) ELSE {})

get_used(b, i, area) == { b[j] : j \in AreaCells(i, area) } \ {0}

get_missing(b, area, start) == U \ get_used(b, start, area)

\* the test with its two answers the wrong way round
is_solved_Inverted(b) == \E i \in Cells : b[i] = 0

is_solved(b) == \A i \in Cells : b[i] # 0

----------------------------------------------------------------------------
(* One propagation round *)

\* statements run in order: Then(x, F) is F(x), with x computed before F runs
Then(x, F(_)) == CHOOSE r \in { F(v) : v \in {x} } : TRUE

\* the smallest member of a non-empty set of numbers: BTreeSet's first element
First(S) == CHOOSE v \in S : \A w \in S : v <= w

\* the write without the count
Assign_NoCount(st, p, v) ==
  [board    |-> [st.board EXCEPT ![p] = v],
   assigned |-> st.assigned,
   writes   |-> Append(st.writes, [pos |-> p, val |-> v, before |-> st.board])]

\* board[p] = v; assigned += 1 (the write is logged with the grid it was made on)
Assign(st, p, v) ==
  [board    |-> [st.board EXCEPT ![p] = v],
   assigned |-> st.assigned + 1,
   writes   |-> Append(st.writes, [pos |-> p, val |-> v, before |-> st.board])]

\* the naked-single step with the free values taken from the row alone
NakedCell_RowOnly(st, row, col) ==
  LET used == get_used(st.board, id(row, col), "ROW")
      free == U \ used
  IN  IF st.board[id(row, col)] = 0 /\ Cardinality(free) = 1
        THEN Assign(st, id(row, col), First(free))
        ELSE st

\* the naked-single step without the test that the cell is unassigned
NakedCell_AssignedToo(st, row, col) ==
  LET used == get_used(st.board, id(row, col), "ALL")
      free == U \ used
  IN  IF Cardinality(free) = 1
        THEN Assign(st, id(row, col), First(free))
        ELSE st

\* the naked-single step taken as soon as any value is free
NakedCell_AnyFree(st, row, col) ==
  LET used == get_used(st.board, id(row, col), "ALL")
      free == U \ used
  IN  IF st.board[id(row, col)] = 0 /\ Cardinality(free) >= 1
        THEN Assign(st, id(row, col), First(free))
        ELSE st

\* the body of the first double loop, for the cell (row, col)
NakedCell(st, row, col) ==
  LET used == get_used(st.board, id(row, col), "ALL")
      free == U \ used
  IN  IF st.board[id(row, col)] = 0 /\ Cardinality(free) = 1
        THEN Assign(st, id(row, col), First(free))
        ELSE st

\* for col in 0..9, first double loop: the columns lo..hi of the row in
\* order; the first half of them runs, then the second half on what the first
\* half left
RECURSIVE NakedRow(_, _, _, _)
NakedRow(st, row, lo, hi) ==
  IF lo = hi THEN Then(lo, LAMBDA col : NakedCell(st, row, col))
  ELSE Then(NakedRow(st, row, lo, (lo + hi) \div 2),
            LAMBDA s : NakedRow(s, row, (lo + hi) \div 2 + 1, hi))

\* for row in 0..9, first double loop: the rows lo..hi in order
RECURSIVE NakedPass(_, _, _)
NakedPass(st, lo, hi) ==
  IF lo = hi THEN Then(lo, LAMBDA row : NakedRow(st, row, 0, 8))
  ELSE Then(NakedPass(st, lo, (lo + hi) \div 2),
            LAMBDA s : NakedPass(s, (lo + hi) \div 2 + 1, hi))

\* the values pushed for cell p with the test for an unassigned cell left out
Pushed_AssignedToo(b, missing, p) ==
  get_missing(b, "ALL", p) \cap missing

\* the values pushed for cell p taken from what the area misses alone
Pushed_AreaOnly(b, missing, p) ==
  IF b[p] = 0 THEN missing ELSE {}

\* the values for which cell p of an area is pushed as a position: for an
\* unassigned cell, the values it misses in row, column and region that the
\* area misses too
Pushed(b, missing, p) ==
  IF b[p] = 0 THEN get_missing(b, "ALL", p) \cap missing ELSE {}

\* candidates, once the cells of the area have been gone through in scan
\* order: for each value its positions, in the order they were pushed
Candidates(b, area, start, cells) ==
  Then([p \in { cells[k] : k \in 1..9 } |-> Pushed(b, get_missing(b, area, start), p)],
       LAMBDA pushed :
         [value \in U |-> SelectSeq(cells, LAMBDA p : value \in pushed[p])])

\* for (value, positions) in &candidates: the values lo..hi, in ascending
\* order (a value without an entry has no positions)
RECURSIVE AssignCandidates(_, _, _, _)
AssignCandidates(st, candidates, lo, hi) ==
  IF lo = hi
    THEN Then(lo, LAMBDA value :
           IF Len(candidates[value]) = 1
             THEN Assign(st, candidates[value][1], value)
             ELSE st)
    ELSE Then(AssignCandidates(st, candidates, lo, (lo + hi) \div 2),
              LAMBDA s : AssignCandidates(s, candidates, (lo + hi) \div 2 + 1, hi))

\* one area of a hidden-single pass: candidates are collected, then assigned
AreaPass(st, area, start, cells) ==
  Then(Candidates(st.board, area, start, cells),
       LAMBDA candidates : AssignCandidates(st, candidates, 1, 9))

RowScan(row) == [k \in 1..9 |-> id(row, k - 1)]  \* for col in 0..9

ColScan(col) == [k \in 1..9 |-> id(k - 1, col)]  \* for row in 0..9

\* for row in 0..3 { for col in 0..3 { pos = start + 9 * row + col } }
RegionScan(start) == [k \in 1..9 |-> start + 9 * ((k - 1) \div 3) + ((k - 1) % 3)]

RegionStarts == <<0, 3, 6, 27, 30, 33, 54, 57, 60>>

\* for row in 0..9, second loop: the rows lo..hi in order
RECURSIVE RowPass(_, _, _)
RowPass(st, lo, hi) ==
  IF lo = hi THEN Then(lo, LAMBDA row : AreaPass(st, "ROW", id(row, 0), RowScan(row)))
  ELSE Then(RowPass(st, lo, (lo + hi) \div 2),
            LAMBDA s : RowPass(s, (lo + hi) \div 2 + 1, hi))

\* for col in 0..9, third loop: the columns lo..hi in order
RECURSIVE ColPass(_, _, _)
ColPass(st, lo, hi) ==
  IF lo = hi THEN Then(lo, LAMBDA col : AreaPass(st, "COL", id(0, col), ColScan(col)))
  ELSE Then(ColPass(st, lo, (lo + hi) \div 2),
            LAMBDA s : ColPass(s, (lo + hi) \div 2 + 1, hi))

\* for start in vec![0, 3, .., 60]: the lo-th to the hi-th start in order
RECURSIVE RegionPass(_, _, _)
RegionPass(st, lo, hi) ==
  IF lo = hi
    THEN Then(RegionStarts[lo], LAMBDA start :
           AreaPass(st, "REGION", start, RegionScan(start)))
    ELSE Then(RegionPass(st, lo, (lo + hi) \div 2),
              LAMBDA s : RegionPass(s, (lo + hi) \div 2 + 1, hi))

\* fn solve: the four passes in order; assigned starts at 0
solve(b) ==
  Then(NakedPass([board |-> b, assigned |-> 0, writes |-> <<>>], 0, 8), LAMBDA s1 :
  Then(RowPass(s1, 0, 8), LAMBDA s2 :
  Then(ColPass(s2, 0, 8), LAMBDA s3 :
       RegionPass(s3, 1, 9))))

----------------------------------------------------------------------------
(* Branches, their order, and seeding *)

\* a.cmp(&b) on integers
cmp(a, b) == IF a < b THEN "Less" ELSE IF a > b THEN "Greater" ELSE "Equal"

\* Ordering::then_with
then_with(o, next) == IF o = "Equal" THEN next ELSE o

\* the order with the depths compared the other way round
BranchCmp_ShallowFirst(self, other) ==
  then_with(then_with(then_with(
    cmp(other._cut, self._cut),
    cmp(other._depth, self._depth)),
    cmp(other._pos, self._pos)),
    cmp(other._val, self._val))

\* impl Ord for Branch: self.cmp(other)
BranchCmp(self, other) ==
  then_with(then_with(then_with(
    cmp(other._cut, self._cut),
    cmp(self._depth, other._depth)),
    cmp(other._pos, self._pos)),
    cmp(other._val, self._val))

\* BinaryHeap::pop yields a greatest item; which one of several equal items
\* comes out is left to the heap's layout
Greatest(heap) ==
  Then(BagToSet(heap), LAMBDA items :
    { b \in items : \A o \in items : BranchCmp(b, o) # "Less" })

\* seeding that drops the branches still on the heap
add_heap_Replace(heap, b, depth) ==
  SetToBag(UNION {
    LET free == U \ get_used(b, p, "ALL")
    IN  { [_pos |-> p, _val |-> v, _cut |-> Cardinality(free),
           _depth |-> depth, _board |-> b] : v \in free } :
    p \in { q \in Cells : b[q] = 0 } })

\* seeding with the free values of a cell taken from its row alone
add_heap_RowFree(heap, b, depth) ==
  heap (+) SetToBag(UNION {
    LET free == U \ get_used(b, p, "ROW")
    IN  { [_pos |-> p, _val |-> v, _cut |-> Cardinality(free),
           _depth |-> depth, _board |-> b] : v \in free } :
    p \in { q \in Cells : b[q] = 0 } })

\* seeding with the value already written into each branch's grid
add_heap_SnapshotAfter(heap, b, depth) ==
  heap (+) SetToBag(UNION {
    LET free == U \ get_used(b, p, "ALL")
    IN  { [_pos |-> p, _val |-> v, _cut |-> Cardinality(free),
           _depth |-> depth, _board |-> [b EXCEPT ![p] = v]] : v \in free } :
    p \in { q \in Cells : b[q] = 0 } })

\* add_heap: one branch for every unassigned cell and every free value of it,
\* each with a clone of the grid
add_heap(heap, b, depth) ==
  heap (+) SetToBag(UNION {
    LET free == U \ get_used(b, p, "ALL")
    IN  { [_pos |-> p, _val |-> v, _cut |-> Cardinality(free),
           _depth |-> depth, _board |-> b] : v \in free } :
    p \in { q \in Cells : b[q] = 0 } })

----------------------------------------------------------------------------
(* The list encoding of a grid *)

\* for i in 1..81: the scan that leaves out cell 0
Indices_From1 == [k \in 1..80 |-> k]

\* for i in 0u8..81: the cells in index order
Indices == [k \in 1..81 |-> k - 1]

\* occurrences once the cells have been gone through: for every value on the
\* board but 0, the indices that hold it, in the order they were pushed
Occurrences(b) ==
  [n \in { b[i] : i \in Cells } \ {0} |-> SelectSeq(Indices, LAMBDA i : b[i] = n)]

\* for (n, indices) in &occurrences: the keys in ascending order; n, then
\* indices.len() as u8, then the indices
RECURSIVE Groups(_, _)
Groups(occurrences, keys) ==
  IF keys = {} THEN <<>>
  ELSE Then(First(keys), LAMBDA n :
         <<n, Len(occurrences[n]) % 256>> \o occurrences[n]
           \o Groups(occurrences, keys \ {n}))

flatten(b) == Then(Occurrences(b), LAMBDA occurrences : Groups(occurrences, DOMAIN occurrences))

\* one turn of the loop of unflatten on the element v. remaining is a u8: on
\* a count of 0 the decrement wraps in a release build and panics in a debug
\* build, and an index above 80 panics; flatten emits neither
UnflattenStep(st, v) ==
  IF st.state = "READY" THEN [st EXCEPT !.cur = v, !.state = "SIZE"]
  ELSE IF st.state = "SIZE" THEN [st EXCEPT !.remaining = v, !.state = "READING"]
  ELSE [st EXCEPT !.board[v] = st.cur,
                  !.remaining = (st.remaining - 1) % 256,
                  !.state = IF (st.remaining - 1) % 256 = 0 THEN "READY" ELSE "READING"]

\* for v in list.iter(): the elements lo..hi of the list in order
RECURSIVE UnflattenRange(_, _, _, _)
UnflattenRange(st, l, lo, hi) ==
  IF lo = hi THEN Then(l[lo], LAMBDA v : UnflattenStep(st, v))
  ELSE Then(UnflattenRange(st, l, lo, (lo + hi) \div 2),
            LAMBDA s : UnflattenRange(s, l, (lo + hi) \div 2 + 1, hi))

unflatten(l) ==
  IF l = <<>> THEN [i \in Cells |-> 0]
  ELSE UnflattenRange([board |-> [i \in Cells |-> 0], cur |-> 0, remaining |-> 0,
                       state |-> "READY"], l, 1, Len(l)).board

----------------------------------------------------------------------------
(* The grids main is started on *)

\* a solved Sudoku, row by row
Solved ==
  << 8, 7, 2,  5, 9, 3,  1, 4, 6,
     3, 4, 6,  1, 2, 7,  5, 9, 8,
     9, 1, 5,  6, 8, 4,  3, 2, 7,
     5, 6, 7,  8, 3, 2,  4, 1, 9,
     1, 9, 4,  7, 5, 6,  8, 3, 2,
     2, 8, 3,  9, 4, 1,  6, 7, 5,
     4, 3, 9,  2, 6, 8,  7, 5, 1,
     7, 2, 8,  4, 1, 5,  9, 6, 3,
     6, 5, 1,  3, 7, 9,  2, 8, 4 >>

Base == [i \in Cells |-> Solved[i + 1]]

\* the largest step of a regular pattern of unassigned cells
MaxStep == 5

\* the most cells a regular pattern may leave unassigned
MaxHoles == 41

\* regular patterns: every cell whose index is r1 or r2 modulo the step m
SparseHoles ==
  { H \in { { i \in Cells : i % m \in {r1, r2} } :
              m \in 2..MaxStep, r1 \in 0..(MaxStep - 1), r2 \in 0..(MaxStep - 1) } :
      Cardinality(H) <= MaxHoles }

\* a few cells of an otherwise full grid
BlankCells == {3, 6, 12, 15, 40, 80}

Holes == SparseHoles \cup SUBSET BlankCells

\* whole rows and columns left unassigned: grids that take several guesses
BlankLines ==
  { [rows |-> {4, 7}, cols |-> {1, 2, 4}],
    [rows |-> {1, 5, 8}, cols |-> {1, 3, 8}],
    [rows |-> {2, 6}, cols |-> {1, 2, 3}],
    [rows |-> {6, 7, 8}, cols |-> {1, 3, 6}] }

LineHoles ==
  { { i \in Cells : i \div 9 \in l.rows \/ i % 9 \in l.cols } : l \in BlankLines }

\* one cell may hold any value instead of the solved grid's
AlterCells == {3, 40}

Alterations == [pos : AlterCells, val : U]

Grid(H, a) ==
  [i \in Cells |-> IF i = a.pos THEN a.val ELSE IF i \in H THEN 0 ELSE Base[i]]

Inputs ==
  { [i \in Cells |-> IF i \in H THEN 0 ELSE Base[i]] : H \in Holes \cup LineHoles }
    \cup { Grid(H, a) : H \in Holes, a \in Alterations }

----------------------------------------------------------------------------
(* main *)

NoBranch == [_pos |-> 0, _val |-> 0, _cut |-> 0, _depth |-> 0]

Init ==
  /\ board \in Inputs
  /\ input = board
  /\ pc = "init_loop"
  /\ assigned = 1
  /\ pq = EmptyBag
  /\ cur = NoBranch
  /\ fixpoint = board
  /\ pre = board
  /\ writes = <<>>
  /\ list = flatten(board)

\* the condition of both fixpoint loops: assigned > 0 && !is_solved(&board)
\* (the first below is the same loop with the progress test left out)
Continue_NoProgressTest(a, b) == ~is_solved(b)

\* the loop that goes on only after a round of more than one assignment
Continue_MoreThanOne(a, b) == a > 1 /\ ~is_solved(b)

Continue(a, b) == a > 0 /\ ~is_solved(b)

\* a call assigned = solve(&mut board) of either fixpoint loop
Round ==
  \E r \in {solve(board)} :
      /\ board' = r.board
      /\ assigned' = r.assigned
      /\ writes' = r.writes
      /\ pre' = board

\* while assigned > 0 && !is_solved(&board) { assigned = solve(&mut board) }
InitRound ==
  /\ pc = "init_loop"
  /\ Continue(assigned, board)
  /\ Round
  /\ UNCHANGED <<list, pc, pq, cur, input, fixpoint>>

\* the loop is left with the grid full: "puzzle is solved", exit(0)
InitSolved ==
  /\ pc = "init_loop"
  /\ ~Continue(assigned, board)
  /\ is_solved(board)
  /\ pc' = "solved"
  /\ fixpoint' = board
  /\ UNCHANGED <<list, board, assigned, pq, cur, input, pre, writes>>

\* the loop is left with the grid not full: add_heap(&mut pq, board, 0)
Seed ==
  /\ pc = "init_loop"
  /\ ~Continue(assigned, board)
  /\ ~is_solved(board)
  /\ pq' = add_heap(EmptyBag, board, 0)
  /\ fixpoint' = board
  /\ pc' = "search"
  /\ UNCHANGED <<list, board, assigned, cur, input, pre, writes>>

\* while let Some(branch) = pq.pop(): _board[_pos] = _val; assigned = 1
Pop ==
  /\ pc = "search"
  /\ \E b \in Greatest(pq) :
       /\ pq' = pq (-) SetToBag({b})
       /\ cur' = [_pos |-> b._pos, _val |-> b._val, _cut |-> b._cut, _depth |-> b._depth]
       /\ board' = [b._board EXCEPT ![b._pos] = b._val]
  /\ assigned' = 1
  /\ pc' = "branch_loop"
  /\ pre' = board'
  /\ writes' = <<>>
  /\ UNCHANGED <<list, input, fixpoint>>

\* while assigned > 0 && !is_solved(&_board) { assigned = solve(&mut _board) }
BranchRound ==
  /\ pc = "branch_loop"
  /\ Continue(assigned, board)
  /\ Round
  /\ UNCHANGED <<list, pc, pq, cur, input, fixpoint>>

\* the branch's grid is full: "puzzle is solved", exit(0)
BranchSolved ==
  /\ pc = "branch_loop"
  /\ ~Continue(assigned, board)
  /\ is_solved(board)
  /\ pc' = "solved"
  /\ UNCHANGED <<list, board, assigned, pq, cur, input, fixpoint, pre, writes>>

\* the branch's grid is not full: add_heap(&mut pq, _board, _depth + 1)
Reseed ==
  /\ pc = "branch_loop"
  /\ ~Continue(assigned, board)
  /\ ~is_solved(board)
  /\ pq' = add_heap(pq, board, cur._depth + 1)
  /\ pc' = "search"
  /\ UNCHANGED <<list, board, assigned, cur, input, fixpoint, pre, writes>>

\* pq.pop() is None: "Could not solve this puzzle."
Exhausted ==
  /\ pc = "search"
  /\ pq = EmptyBag
  /\ pc' = "failed"
  /\ UNCHANGED <<list, board, assigned, pq, cur, input, fixpoint, pre, writes>>

Next ==
  \/ InitRound
  \/ InitSolved
  \/ Seed
  \/ Pop
  \/ BranchRound
  \/ BranchSolved
  \/ Reseed
  \/ Exhausted

Spec == Init /\ [][Next]_vars

\* the scheduling of a single-threaded run: main keeps taking its next step
FairSpec == Spec /\ WF_vars(Next)

----------------------------------------------------------------------------
(* One call of solve on its own, on any of the grids *)

CallInit ==
  /\ board \in Inputs
  /\ input = board
  /\ pc = "call"
  /\ assigned = 1
  /\ pq = EmptyBag
  /\ cur = NoBranch
  /\ fixpoint = board
  /\ pre = board
  /\ writes = <<>>
  /\ list = <<>>

Call ==
  /\ pc = "call"
  /\ Round
  /\ pc' = "returned"
  /\ UNCHANGED <<list, pq, cur, input, fixpoint>>

CallNext == Call

CallSpec == CallInit /\ [][CallNext]_vars

----------------------------------------------------------------------------
(* The list encoding on its own: a grid is flattened, the list unflattened *)

\* grids that need not come from a Sudoku: cell i holds (k * i + c) modulo 10
CodecBoards ==
  Inputs \cup { [i \in Cells |-> (k * i + c) % 10] : k \in 0..MaxStep, c \in 0..9 }

CodecInit ==
  /\ board \in CodecBoards
  /\ input = board
  /\ pc = "board_arg"
  /\ assigned = 1
  /\ pq = EmptyBag
  /\ cur = NoBranch
  /\ fixpoint = board
  /\ pre = board
  /\ writes = <<>>
  /\ list = <<>>

\* list = flatten(&board)
Flatten ==
  /\ pc = "board_arg"
  /\ list' = flatten(board)
  /\ pc' = "listed"
  /\ UNCHANGED <<board, assigned, pq, cur, input, fixpoint, pre, writes>>

\* board = unflatten(&list)
Unflatten ==
  /\ pc = "listed"
  /\ board' = unflatten(list)
  /\ pc' = "unflattened"
  /\ UNCHANGED <<list, assigned, pq, cur, input, fixpoint, pre, writes>>

CodecNext == Flatten \/ Unflatten

CodecSpec == CodecInit /\ [][CodecNext]_vars

----------------------------------------------------------------------------
(* What the properties speak of *)

SameRow(i, j) == i \div 9 = j \div 9

SameCol(i, j) == i % 9 = j % 9

SameRegion(i, j) == i \div 27 = j \div 27 /\ (i % 9) \div 3 = (j % 9) \div 3

\* the other cells of i's row, column and region
Peers(i) == { j \in Cells : j # i /\ (SameRow(i, j) \/ SameCol(i, j) \/ SameRegion(i, j)) }

\* for every cell, the cell and its peers
Scope == [i \in Cells |-> Peers(i) \cup {i}]

\* the values free for cell i on grid b
Free(b, i) == (1..9) \ { b[j] : j \in Scope[i] }

\* the nine rows, nine columns and nine regions, as sets of cells
Units ==
  { { j \in Cells : j \div 9 = k } : k \in 0..8 }
    \cup { { j \in Cells : j % 9 = k } : k \in 0..8 }
    \cup { { j \in Cells : j \div 27 = k \div 3 /\ (j % 9) \div 3 = k % 3 } : k \in 0..8 }

\* every row, column and region holds each of 1..9 (so exactly once)
Valid(b) == \A unit \in Units : { b[j] : j \in unit } = 1..9

\* no value is held twice in a row, column or region
NoDuplicate(b) == \A i \in Cells : b[i] # 0 => \A j \in Peers(i) : b[j] # b[i]

\* some row holds the same value in two cells
RowDuplicate(b) ==
  \E i, j \in Cells : i # j /\ SameRow(i, j) /\ b[i] # 0 /\ b[i] = b[j]

\* the grids got from the grids of Bs by giving each unassigned cell of the
\* row, from column col on, a value no peer holds
RECURSIVE FillRow(_, _, _)
FillRow(Bs, row, col) ==
  IF Bs = {} \/ col > 8 THEN Bs
  ELSE FillRow(
         UNION { IF b[9 * row + col] # 0 THEN {b}
                 ELSE { [b EXCEPT ![9 * row + col] = v] : v \in Free(b, 9 * row + col) } :
                 b \in Bs },
         row, col + 1)

RECURSIVE FillRows(_, _)
FillRows(Bs, row) ==
  IF Bs = {} \/ row > 8 THEN Bs ELSE FillRows(FillRow(Bs, row, 0), row + 1)

\* b has a valid completion: a valid full grid that agrees with b wherever
\* b is assigned
HasCompletion(b) == NoDuplicate(b) /\ FillRows({b}, 0) # {}

Terminated == pc \in {"solved", "failed"}

\* the step is a call of solve: the steps that stay in a fixpoint loop, and
\* the step of the call on its own
RoundStep ==
  \/ pc \in {"init_loop", "branch_loop"} /\ pc' = pc
  \/ pc = "call" /\ pc' = "returned"

----------------------------------------------------------------------------
(* The properties *)

\* a branch has been taken from the frontier
Searched == cur._cut > 0

\* C1: whenever the engine reports solved, the grid is full and every row,
\* column and region holds each of 1..9 exactly once
C1_SolvedIsValid == pc = "solved" => is_solved(board) /\ Valid(board)

\* C2: started on a grid with a value twice in a row, the engine ends by
\* reporting that it could not solve it, and never reports solved
C2_RowDuplicateUnsolvable ==
  RowDuplicate(input) => pc # "solved" /\ (Terminated => pc = "failed")

\* C3: every run ends, either reporting solved or reporting failure
C3_Terminates == <>Terminated

C3_Witness == pc = "failed" /\ cur._depth > 0

\* C4: the engine reports failure only on a grid without a valid completion;
\* on a grid with one it reports solved
C4_Complete ==
  Terminated /\ HasCompletion(input) => pc = "solved"

C4_Witness ==
  pc = "solved" /\ HasCompletion(input) /\ cur._depth > 0 /\ Valid(board)

\* C5: a grid reported solved agrees with the grid main started from, and
\* with the grid the first fixpoint loop ended with, on every cell assigned
\* there
C5_CluesKept ==
  pc = "solved" =>
    \A i \in Cells : /\ input[i] # 0 => board[i] = input[i]
                     /\ fixpoint[i] # 0 => board[i] = fixpoint[i]

C5_Witness == pc = "solved" /\ Searched /\ fixpoint # input /\ board # fixpoint

\* C6: every value solve writes into a cell is held by no other cell of the
\* cell's row, column or region in the grid as it is at that write
C6_WritesFree ==
  \A k \in 1..Len(writes) :
    \A j \in Peers(writes[k].pos) : writes[k].before[j] # writes[k].val

C6_Witness == Len(writes) > 1 /\ ~HasCompletion(input)

\* C7: a call of solve leaves every assigned cell as it was
C7_AssignedKept ==
  [][RoundStep => \A i \in Cells : board[i] # 0 => board'[i] = board[i]]_vars

C7_Witness == pc = "branch_loop" /\ Len(writes) > 0 /\ pre # board

\* C8: the count a call of solve returns is the number of cells that were
\* unassigned before the call and are assigned after it
C8_CountIsNewCells ==
  [][RoundStep =>
       assigned' = Cardinality({ i \in Cells : board[i] = 0 /\ board'[i] # 0 })]_vars

\* C9: a call of solve on a full grid returns 0 and leaves the grid as it was
C9_FullGridUntouched ==
  pc = "returned" /\ is_solved(pre) => assigned = 0 /\ board = pre

C9_Witness == pc = "returned" /\ is_solved(pre) /\ ~Valid(pre)

\* a comes no later than b: fewer free values, then greater depth, then
\* smaller cell index, then smaller value
KeyLeq(a, b) ==
  \/ a._cut < b._cut
  \/ a._cut = b._cut /\ a._depth > b._depth
  \/ a._cut = b._cut /\ a._depth = b._depth /\ a._pos < b._pos
  \/ a._cut = b._cut /\ a._depth = b._depth /\ a._pos = b._pos /\ a._val <= b._val

\* C10: the branch taken from the frontier comes no later, in that order,
\* than any branch on the frontier
C10_PopsLeast ==
  [][pc = "search" /\ pc' = "branch_loop" =>
       \A b \in BagToSet(pq) : KeyLeq(cur', b)]_vars

C10_Witness ==
  /\ pc = "branch_loop"
  /\ \E b \in BagToSet(pq) : b._cut = cur._cut /\ b._depth < cur._depth
  /\ \E b \in BagToSet(pq) : b._cut = cur._cut /\ b._depth = cur._depth /\ b._pos > cur._pos

\* C11: started on a full valid grid (Valid leaves no cell unassigned), the
\* engine reports solved with the grid it was started on, no cell changed, and
\* no branch is ever pushed: the first fixpoint loop is not entered, and the
\* one step main can take is the exit that reports solved
C11_FullValidReturned ==
  Valid(input) =>
    /\ pc \in {"init_loop", "solved"}
    /\ pc = "init_loop" => ~Continue(assigned, board) /\ is_solved(board)
    /\ board = input
    /\ pq = EmptyBag

C11_Witness == pc = "solved" /\ Valid(input) /\ board = input

\* the grid has exactly one unassigned cell, and the cell's row, column and
\* region hold eight values between them
OneNaked(b) ==
  /\ Cardinality({ i \in Cells : b[i] = 0 }) = 1
  /\ \A i \in Cells : b[i] = 0 => Cardinality(get_used(b, i, "ALL")) = 8

\* C12: started on a grid with one unassigned cell whose row, column and
\* region hold the other eight values, the first call of solve writes the
\* ninth value into the cell and returns 1; the engine then reports solved
\* and never pushes a branch
C12_OneCellFirstRound ==
  [][OneNaked(input) =>
       /\ pc' \in {"init_loop", "solved"}
       /\ pq' = EmptyBag
       /\ RoundStep /\ board = input =>
            /\ assigned' = 1
            /\ \A i \in Cells :
                 board'[i] = IF input[i] = 0
                               THEN First(U \ get_used(input, i, "ALL"))
                               ELSE input[i]]_vars

C12_Witness == pc = "solved" /\ OneNaked(input) /\ board # input /\ assigned = 1

\* the places of a list where a group (value, count, indices...) starts, from
\* place k on
RECURSIVE GroupStarts(_, _)
GroupStarts(l, k) ==
  IF k > Len(l) THEN {}
  ELSE IF k = Len(l) THEN {k}
  ELSE {k} \cup GroupStarts(l, k + 2 + l[k + 1])

\* every group is whole, with a count of at least 1 and ascending indices,
\* and the values of the groups ascend strictly
WellGrouped(l) ==
  \A k \in GroupStarts(l, 1) :
    /\ k + 1 <= Len(l)
    /\ l[k + 1] >= 1
    /\ k + 1 + l[k + 1] <= Len(l)
    /\ \A j \in (k + 2)..(k + l[k + 1]) : l[j] < l[j + 1]
    /\ \A k2 \in GroupStarts(l, 1) : k < k2 => l[k] < l[k2]

\* C13: unflatten(flatten(board)) is the board, and the list flatten emits is
\* made of groups (value, count, indices...) with strictly ascending values,
\* counts of at least 1 and ascending indices within a group
C13_RoundTrip ==
  /\ pc \in {"listed", "unflattened"} => WellGrouped(list)
  /\ pc = "unflattened" => board = input

C13_Witness ==
  /\ pc = "unflattened"
  /\ board = input
  /\ Cardinality(GroupStarts(list, 1)) = 9
  /\ \E i \in Cells : input[i] = 0
  /\ ~NoDuplicate(input)

\* the branches have the same cut, depth, position and value
SameKey(a, b) ==
  a._cut = b._cut /\ a._depth = b._depth /\ a._pos = b._pos /\ a._val = b._val

\* C14: no two branches on the frontier at the same time have the same cut,
\* depth, position and value, so at every pop exactly one branch is the
\* greatest and the order of the pops is fixed by the keys
C14_KeysDistinct ==
  /\ \A a \in BagToSet(pq) :
       /\ CopiesIn(a, pq) = 1
       /\ \A b \in BagToSet(pq) : SameKey(a, b) => a = b
  /\ pc = "search" /\ pq # EmptyBag => Cardinality(Greatest(pq)) = 1

\* C15: every grid handed to add_heap (main is at "search" right after, with
\* that grid as its working grid) is not full and is a fixpoint: one more call
\* of solve would return 0 and change nothing, and no unassigned cell of it
\* has exactly one free value; every branch on the frontier has a cut of at
\* least 2
C15_SeedAtFixpoint ==
  /\ pc = "search" =>
       /\ \E i \in Cells : board[i] = 0
       /\ \E r \in {solve(board)} : r.assigned = 0 /\ r.board = board
       /\ \A i \in Cells : board[i] = 0 => Cardinality(Free(board, i)) # 1
  /\ \A b \in BagToSet(pq) : b._cut >= 2

C15_Witness ==
  /\ pc = "search"
  /\ cur._depth > 0
  /\ \E b \in BagToSet(pq) : b._board = board /\ b._depth = cur._depth + 1

\* the branch's cell is unassigned on the branch's grid, its value is free for
\* the cell there, and its cut is the number of values free for the cell
WellFormed(b) ==
  /\ b._board[b._pos] = 0
  /\ \E free \in {Free(b._board, b._pos)} : b._val \in free /\ b._cut = Cardinality(free)

\* C16: every branch on the frontier is for a cell unassigned on its own grid,
\* with a value free for that cell there and the number of such values as its
\* cut; the branches pushed by the first seeding have depth 0, those pushed by
\* a re-seeding the depth of the branch popped last plus 1
C16_FrontierWellFormed ==
  [][/\ \A b \in BagToSet(pq') : WellFormed(b)
     /\ pc = "init_loop" /\ pc' = "search" =>
          \A b \in BagToSet(pq') : b._depth = 0
     /\ pc = "branch_loop" /\ pc' = "search" =>
          \A b \in BagToSet(pq') :
            CopiesIn(b, pq') > CopiesIn(b, pq) => b._depth = cur._depth + 1]_vars

C16_Witness ==
  /\ pc = "search"
  /\ \E b \in BagToSet(pq) : b._depth = 0
  /\ \E b \in BagToSet(pq) : b._depth = 2 /\ b._board = board /\ cur._depth = 1

\* the dead cells of a grid: unassigned, and no value is free for them
Dead(b) == { i \in Cells : b[i] = 0 /\ Free(b, i) = {} }

\* C17: a dead cell stays dead. A call of solve leaves every dead cell of the
\* grid dead, a pop leaves every dead cell of the popped branch's grid dead on
\* the working grid, and nothing is reported solved after a grid of its
\* lineage (the grid the search started from, the grid before the last call
\* of solve) had a dead cell; a seeding still pushes a branch for every other
\* unassigned cell of the grid and every value free for it
C17_DeadStaysDead ==
  [][/\ RoundStep => Dead(board) \subseteq Dead(board')
     /\ pc = "search" /\ pc' = "branch_loop" =>
          \A b \in BagToSet(pq) :
            CopiesIn(b, pq') < CopiesIn(b, pq) => Dead(b._board) \subseteq Dead(board')
     /\ pc' = "solved" => Dead(pre') = {} /\ (cur._cut > 0 => Dead(fixpoint') = {})
     /\ pc # "search" /\ pc' = "search" =>
          \A i \in Cells : \A v \in (IF board'[i] = 0 THEN Free(board', i) ELSE {}) :
            \E b \in BagToSet(pq') :
              b._board = board' /\ b._pos = i /\ b._val = v /\ b._depth = cur'._depth + (IF cur'._cut > 0 THEN 1 ELSE 0)]_vars

C17_Witness ==
  /\ pc = "search"
  /\ Searched
  /\ Dead(fixpoint) # {}
  /\ Dead(fixpoint) \subseteq Dead(board)
  /\ board # fixpoint
  /\ \E b \in BagToSet(pq) : b._board = board

\* no row, column or region of the grid holds a value but 0 in two cells
Consistent(b) ==
  \A unit \in Units : \A i, j \in unit : i # j /\ b[i] # 0 => b[i] # b[j]

\* C18: started on a grid without a value twice in a row, column or region,
\* the working grid is such a grid after every call of solve and after every
\* pop, and so is the grid of every branch on the frontier
C18_ConsistencyKept ==
  Consistent(input) =>
    /\ Consistent(board)
    /\ \A g \in { b._board : b \in BagToSet(pq) } : Consistent(g)

C18_Witness ==
  /\ Consistent(input)
  /\ pc = "branch_loop"
  /\ cur._depth > 0
  /\ Len(writes) > 0
  /\ Dead(board) # {}
  /\ pq # EmptyBag

\* the valid full grids that agree with b on every assigned cell of b
Completions(b) ==
  IF Consistent(b) THEN { S \in FillRows({b}, 0) : Valid(S) } ELSE {}

\* C19: a call of solve keeps every solution: a valid full grid that agrees
\* with the grid on its assigned cells before the call agrees with the grid
\* on its assigned cells after the call
C19_SolutionsKept ==
  [][RoundStep =>
       \A S \in Completions(board) :
         \A i \in Cells : board'[i] # 0 => S[i] = board'[i]]_vars

C19_Witness ==
  /\ pc = "init_loop"
  /\ Len(writes) > 0
  /\ Cardinality(Completions(pre)) > 1
  /\ Cardinality(Completions(board)) = Cardinality(Completions(pre))

====
